---- MODULE Spec2Model ----
(***************************************************************************)
(* Model of src/app.py: the POST /generate endpoint of the PostgreSQL      *)
(* infrastructure generator.                                                *)
(*                                                                          *)
(* Text is modelled as a sequence of tokens.  A value that comes from the   *)
(* request (postgres_version, shared_buffers) is a sequence of one-character*)
(* strings, so that the regular expressions are matched character by        *)
(* character; every digit of the templates is a one-character token as      *)
(* well; the rest of a template is cut into multi-character literal tokens. *)
(* An instance type is one token (the code only compares it as a whole).    *)
(***************************************************************************)
EXTENDS Integers, Sequences, FiniteSets, TLC

\* ------------------------------------------------------------------ bounds
NumReq == 2
MaxTick == 2
TicksPerSecond == 2
MaxReplicas == 3
MaxStrLen == 4

Reqs == 1..NumReq

\* ------------------------------------------------------- strings and numbers
DigitChars == <<"0", "1", "2", "3", "4", "5", "6", "7", "8", "9">>

\* \d of the re module, over the ASCII characters the model draws from.
IsDigit(c) == \E d \in 1..10 : DigitChars[d] = c

RECURSIVE NatToStr(_)
NatToStr(n) ==
    IF n < 10 THEN <<DigitChars[n + 1]>>
    ELSE NatToStr(n \div 10) \o <<DigitChars[(n % 10) + 1]>>

\* str(int): decimal digits, a leading "-" for a negative number.
str(n) == IF n < 0 THEN <<"-">> \o NatToStr(0 - n) ELSE NatToStr(n)

\* Whether needle occurs in text as a contiguous run of tokens.
Contains(text, needle) ==
    \E i \in 1..(Len(text) + 1) :
        /\ i + Len(needle) - 1 <= Len(text)
        /\ SubSeq(text, i, i + Len(needle) - 1) = needle

\* ------------------------------------------------------------ the validator
VALID_INSTANCE_TYPES ==
    <<"t2.micro", "t2.small", "t2.medium",
      "t3.micro", "t3.small", "t3.medium",
      "m5.large", "m5.xlarge", "m5.2xlarge">>

\* `$` of the re module without re.MULTILINE: the end of the string, or the
\* position just before a newline that is the last character of the string.
\* pos is the index of the next character to consume.
DollarMatches(v, pos) ==
    \/ pos = Len(v) + 1
    \/ pos = Len(v) /\ v[pos] = "\n"

\* v[1..k] are all digits, k >= 1: the ways \d+ can match at the start.
DigitRun(v, k) == k >= 1 /\ k <= Len(v) /\ \A i \in 1..k : IsDigit(v[i])

check_instance_type(v) == \E i \in DOMAIN VALID_INSTANCE_TYPES : VALID_INSTANCE_TYPES[i] = v

\* re.match(r'^\d+(MB|GB)$', v)
check_shared_buffers(v) ==
    \E k \in 1..Len(v) :
        /\ DigitRun(v, k)
        /\ k + 2 <= Len(v)
        /\ SubSeq(v, k + 1, k + 2) \in {<<"M", "B">>, <<"G", "B">>}
        /\ DollarMatches(v, k + 3)

\* re.match(r'^\d+\.\d+$', v)
check_postgres_version(v) ==
    \E k \in 1..Len(v) :
        /\ DigitRun(v, k)
        /\ k + 1 <= Len(v)
        /\ v[k + 1] = "."
        /\ \E m \in (k + 2)..Len(v) :
              /\ \A i \in (k + 2)..m : IsDigit(v[i])
              /\ DollarMatches(v, m + 1)

\* conint(ge=1)
check_max_connections(n) == n >= 1

\* The errors pydantic collects, in the order of the model's fields; the
\* field num_replicas: int has no validator and adds none.
ValidationErrors(cfg) ==
    (IF check_postgres_version(cfg.postgres_version) THEN <<>>
     ELSE <<[loc |-> "postgres_version",
             msg |-> "PostgreSQL version must be in the format X.YY.ZZ (e.g., 14.10.20)."]>>)
    \o
    (IF check_instance_type(cfg.instance_type) THEN <<>>
     ELSE <<[loc |-> "instance_type", msg |-> "Invalid instance type"]>>)
    \o
    (IF check_max_connections(cfg.max_connections) THEN <<>>
     ELSE <<[loc |-> "max_connections", msg |-> "ensure this value is greater than or equal to 1"]>>)
    \o
    (IF check_shared_buffers(cfg.shared_buffers) THEN <<>>
     ELSE <<[loc |-> "shared_buffers",
             msg |-> "Invalid format for shared_buffers. Use formats like '256MB' or '1GB'."]>>)

PostgreSQLSetup(cfg) == ValidationErrors(cfg) = <<>>

\* ------------------------------------------------------------ the renderer
VARIABLES
    clock,               \* datetime.now(), in ticks of 1/TicksPerSecond s
    fs,                  \* the working directory: filename -> content
    running,             \* the request whose handler holds the event loop, or 0
    pc,                  \* per request: where it is in generate_all
    config,              \* per request: the submitted body
    terraform_filename,  \* per request: the local of generate_all
    ansible_filename,    \* per request: the local of generate_all
    response,            \* per request: the HTTP response sent
    tfGen, pbGen,        \* history: the tick at which each name was derived
    opener,              \* history: filename -> the request that last opened it
    wrote                \* history: the files a request wrote in full, in order

vars == <<clock, fs, running, pc, config, terraform_filename, ansible_filename,
          response, tfGen, pbGen, opener, wrote>>

\* A faulty variant of strftime: the format without its %S, so minute granularity.
strftimeNoSeconds(now) == <<"202401151030">>

\* strftime("%Y%m%d%H%M%S") of a time within the minute 2024-01-15 10:30: the
\* date, hour and minute digits are fixed, the second is zero-padded to two.
strftime(now) ==
    LET sec == now \div TicksPerSecond
    IN  <<"202401151030">> \o (IF sec < 10 THEN <<"0">> ELSE <<>>) \o NatToStr(sec)

generate_timestamped_filename(base_name, extension) ==
    LET timestamp == strftime(clock)
    IN  <<base_name, "_">> \o timestamp \o <<".", extension>>

ResourceOpen == "resource \"aws_instance\" \""
AmiOpen == "\" {\n  ami           = \"ami-"
AmiDigits == <<"1", "2", "3", "4", "5", "6", "7", "8">>
InstanceTypeOpen == "\"  # Replace with a valid PostgreSQL AMI\n  instance_type = \""

\* A faulty variant of ReplicaBlock: the blocks are numbered with i, not i+1.
ReplicaBlockZeroBased(i, instance_type) ==
    <<"\n", ResourceOpen, "replica_">> \o str(i) \o <<AmiOpen>> \o AmiDigits
    \o <<InstanceTypeOpen, instance_type, "\"\n  tags = {\n    Name = \"ReplicaPostgres">>
    \o str(i) \o <<"\"\n  }\n}\n">>

\* One pass of the loop body, lines 54-62, for loop variable i.
ReplicaBlock(i, instance_type) ==
    <<"\n", ResourceOpen, "replica_">> \o str(i + 1) \o <<AmiOpen>> \o AmiDigits
    \o <<InstanceTypeOpen, instance_type, "\"\n  tags = {\n    Name = \"ReplicaPostgres">>
    \o str(i + 1) \o <<"\"\n  }\n}\n">>

\* for i in range(num_replicas): resources += ...
RECURSIVE ReplicaLoop(_, _, _, _)
ReplicaLoop(i, num_replicas, instance_type, resources) ==
    IF i >= num_replicas THEN resources
    ELSE ReplicaLoop(i + 1, num_replicas, instance_type,
                     resources \o ReplicaBlock(i, instance_type))

\* A faulty variant of generate_replica_resources: range(abs(num_replicas)).
generate_replica_resources_abs(num_replicas, instance_type) ==
    ReplicaLoop(0, IF num_replicas < 0 THEN 0 - num_replicas ELSE num_replicas,
                instance_type, <<>>)

generate_replica_resources(num_replicas, instance_type) ==
    ReplicaLoop(0, num_replicas, instance_type, <<>>)

\* The f-string of lines 72-90.
TerraformText(cfg) ==
    <<"\nprovider \"aws\" {\n  region = \"us-east-", "1", "\"\n}\n\n",
      ResourceOpen, "primary", AmiOpen>> \o AmiDigits
    \o <<InstanceTypeOpen, cfg.instance_type,
         "\"\n  tags = {\n    Name = \"PrimaryPostgres\"\n  }\n}\n\n">>
    \o generate_replica_resources(cfg.num_replicas, cfg.instance_type)
    \o <<"\n\noutput \"primary_ip\" {\n  value = aws_instance.primary.public_ip\n}\n">>

\* The f-string of lines 95-124.  In an f-string {{ and }} are literal
\* braces, so lines 113-117 are literal text: nothing is substituted there.
AnsibleText(cfg) ==
    <<"\n- hosts: all\n  become: yes\n  tasks:\n    - name: Install PostgreSQL\n      apt:\n        name: postgresql-">>
    \o cfg.postgres_version
    \o <<"\n        state: present\n\n    - name: Configure PostgreSQL\n      template:\n        src: pg_hba.conf.j",
         "2", "\n        dest: /etc/postgresql/">>
    \o cfg.postgres_version
    \o <<"/main/pg_hba.conf\n      notify: restart postgresql\n\n    - name: Set max_connections and shared_buffers\n      lineinfile:\n        path: /etc/postgresql/">>
    \o cfg.postgres_version
    \o <<"/main/postgresql.conf\n        regexp: '^{ item.key }'\n        line: '{ item.key } = { item.value }'\n      with_items:\n",
         "        - { 'max_connections: ' + str(config.max_connections) }\n",
         "        - { 'shared_buffers: ' + config.shared_buffers }\n",
         "\n  handlers:\n    - name: restart postgresql\n      service:\n        name: postgresql\n        state: restarted\n">>

\* ------------------------------------------------------------- inputs
BaseConfig ==
    [postgres_version |-> <<"1", "4", ".", "1", "0">>,
     instance_type    |-> "t3.medium",
     num_replicas     |-> 2,
     max_connections  |-> 100,
     shared_buffers   |-> <<"2", "5", "6", "M", "B">>]

\* Request bodies of Spec, where several requests follow one another: two
\* accepted bodies that render differently, and one that is rejected.
Configs ==
    {BaseConfig,
     [BaseConfig EXCEPT !.instance_type = "m5.large", !.num_replicas = 0],
     [BaseConfig EXCEPT !.instance_type = "t2.nano"]}

\* Request bodies of SpecSingle, where one request is followed through: every
\* replica count from -1 to MaxReplicas, and bodies that break one rule each.
WideConfigs ==
    {[BaseConfig EXCEPT !.num_replicas = n, !.instance_type = t] :
        n \in (0 - 1)..MaxReplicas, t \in {"t3.medium", "m5.large"}}
    \cup {[BaseConfig EXCEPT !.instance_type = "t2.nano"],
          [BaseConfig EXCEPT !.shared_buffers = <<"1", ".", "5", "G", "B">>],
          [BaseConfig EXCEPT !.shared_buffers = <<"1", "G", "B">>, !.max_connections = 7],
          [BaseConfig EXCEPT !.postgres_version = <<"1", "4", ".", "1", "0", ".", "2", "0">>],
          [BaseConfig EXCEPT !.max_connections = 0]}

\* Request bodies of SpecValidator: one of the two pattern-checked fields runs
\* over every string of at most MaxStrLen characters of a small alphabet, and
\* each other field over a value that passes and values that do not.
Strings(alphabet) == UNION {[1..k -> alphabet] : k \in 0..MaxStrLen}
BufferStrings == Strings({"2", "M", "G", "B", ".", "\n"})
VersionStrings == Strings({"1", ".", "x", "\n"})

ValidatorInputs ==
    [postgres_version : {<<"1", ".", "2">>, <<"1", ".", "2", ".", "3">>},
     instance_type    : {"t2.micro", "t2.nano"},
     num_replicas     : {0 - 1, 0, MaxReplicas},
     max_connections  : {0, 1},
     shared_buffers   : BufferStrings]
    \cup
    [postgres_version : VersionStrings,
     instance_type    : {"t2.micro", "t2.nano"},
     num_replicas     : {0 - 1, 0, MaxReplicas},
     max_connections  : {0, 1},
     shared_buffers   : {<<"2", "G", "B">>, <<"2", "T", "B">>}]

\* ------------------------------------------------------------- the endpoint
NoResponse == [status |-> 0, body |-> <<>>]
NoFile == <<>>

\* FastAPI's answer to a body that fails the pydantic model: the handler of
\* RequestValidationError, which app.py does not replace.
request_validation_exception_handler(errors) ==
    [status |-> 422, body |-> [detail |-> errors]]

\* Lines 135-141: registered for HTTPException only.
http_exception_handler(status_code, detail) ==
    [status |-> status_code, body |-> [error |-> detail]]

Init ==
    /\ clock = 0
    /\ fs = <<>>
    /\ opener = <<>>
    /\ running = 0
    /\ pc = [r \in Reqs |-> "idle"]
    /\ config = [r \in Reqs |-> BaseConfig]
    /\ terraform_filename = [r \in Reqs |-> NoFile]
    /\ ansible_filename = [r \in Reqs |-> NoFile]
    /\ response = [r \in Reqs |-> NoResponse]
    /\ tfGen = [r \in Reqs |-> 0 - 1]
    /\ pbGen = [r \in Reqs |-> 0 - 1]
    /\ wrote = [r \in Reqs |-> <<>>]

\* The wall clock advances on its own, also between two lines of a handler.
Tick ==
    /\ clock < MaxTick
    /\ clock' = clock + 1
    /\ UNCHANGED <<fs, running, pc, config, terraform_filename, ansible_filename,
                   response, tfGen, pbGen, opener, wrote>>

\* A faulty variant of PostGenerate: the body reaches generate_all unvalidated.
PostGenerateUnchecked(r, cfg) ==
    /\ pc[r] = "idle"
    /\ running = 0
    /\ \A q \in Reqs : q < r => pc[q] # "idle"
    /\ config' = [config EXCEPT ![r] = cfg]
    /\ pc' = [pc EXCEPT ![r] = "validated"]
    /\ running' = r
    /\ UNCHANGED <<clock, fs, terraform_filename, ansible_filename, response,
                   tfGen, pbGen, opener, wrote>>

\* POST /generate arrives: FastAPI builds PostgreSQLSetup from the body and
\* calls generate_all only when that raised nothing.  Validation and the
\* handler run on the one event loop of uvicorn.run(app), and between them
\* nothing awaits: a request is taken up only while no handler is running.
\* Requests are numbered in the order they are taken up.
PostGenerate(r, cfg) ==
    /\ pc[r] = "idle"
    /\ running = 0
    /\ \A q \in Reqs : q < r => pc[q] # "idle"
    /\ config' = [config EXCEPT ![r] = cfg]
    /\ IF PostgreSQLSetup(cfg)
       THEN /\ pc' = [pc EXCEPT ![r] = "validated"]
            /\ running' = r
            /\ UNCHANGED response
       ELSE /\ pc' = [pc EXCEPT ![r] = "rejected"]
            /\ response' = [response EXCEPT
                   ![r] = request_validation_exception_handler(ValidationErrors(cfg))]
            /\ UNCHANGED running
    /\ UNCHANGED <<clock, fs, terraform_filename, ansible_filename,
                   tfGen, pbGen, opener, wrote>>

\* A faulty variant of OpenForWrite: open(name, 'a'), which keeps what the file holds.
OpenForAppend(files, name) ==
    [n \in (DOMAIN files) \cup {name} |-> IF n \in DOMAIN files THEN files[n] ELSE <<>>]

\* open(name, 'w'): the file is created, or truncated when it exists.
OpenForWrite(files, name) ==
    [n \in (DOMAIN files) \cup {name} |-> IF n = name THEN <<>> ELSE files[n]]

\* f.write(text) and the close at the end of the with block.
WriteText(files, name, text) == [files EXCEPT ![name] = files[name] \o text]

\* What a write that fails leaves behind: nothing of the text, or all of it
\* but its end.
PartialWrites(text) == {<<>>, SubSeq(text, 1, Len(text) - 1)}

\* A faulty variant of Raise: the except block removes the files the request named.
RaiseAndCleanup(r, e, files) ==
    /\ pc' = [pc EXCEPT ![r] = "failed"]
    /\ response' = [response EXCEPT ![r] = http_exception_handler(422, e)]
    /\ running' = 0
    /\ fs' = [n \in (DOMAIN files) \ {terraform_filename[r], ansible_filename[r]} |->
                 files[n]]

\* Lines 132-133 with 135-141: an exception anywhere in the try block ends the
\* request with HTTPException(422, str(e)); the files are left as they are at
\* the raise.
Raise(r, e, files) ==
    /\ pc' = [pc EXCEPT ![r] = "failed"]
    /\ response' = [response EXCEPT ![r] = http_exception_handler(422, e)]
    /\ running' = 0
    /\ fs' = files

\* Line 70.  async def generate_all has no await: once it starts it runs to
\* its return (or its raise) before another request is served.
DeriveTerraformName(r) ==
    /\ pc[r] = "validated"
    /\ running = r
    /\ terraform_filename' = [terraform_filename EXCEPT
           ![r] = generate_timestamped_filename("main", "tf")]
    /\ tfGen' = [tfGen EXCEPT ![r] = clock]
    /\ pc' = [pc EXCEPT ![r] = "tf_named"]
    /\ UNCHANGED <<clock, fs, running, config, ansible_filename, response, pbGen, opener, wrote>>

\* Line 71.
OpenTerraform(r) ==
    /\ pc[r] = "tf_named"
    /\ \/ /\ fs' = OpenForWrite(fs, terraform_filename[r])
          /\ opener' = [n \in (DOMAIN opener) \cup {terraform_filename[r]} |->
                           IF n = terraform_filename[r] THEN r ELSE opener[n]]
          /\ pc' = [pc EXCEPT ![r] = "tf_open"]
          /\ UNCHANGED <<running, response>>
       \/ /\ Raise(r, "OSError: open", fs)
          /\ UNCHANGED opener
    /\ UNCHANGED <<clock, config, terraform_filename, ansible_filename, tfGen, pbGen, wrote>>

\* Lines 72-90.
WriteTerraform(r) ==
    /\ pc[r] = "tf_open"
    /\ \/ /\ fs' = WriteText(fs, terraform_filename[r], TerraformText(config[r]))
          /\ wrote' = [wrote EXCEPT ![r] = Append(@, "tf")]
          /\ pc' = [pc EXCEPT ![r] = "tf_written"]
          /\ UNCHANGED <<running, response>>
       \/ /\ \E part \in PartialWrites(TerraformText(config[r])) :
                 Raise(r, "OSError: write", WriteText(fs, terraform_filename[r], part))
          /\ UNCHANGED wrote
    /\ UNCHANGED <<clock, config, terraform_filename, ansible_filename, tfGen, pbGen, opener>>

\* Line 93.
DeriveAnsibleName(r) ==
    /\ pc[r] = "tf_written"
    /\ ansible_filename' = [ansible_filename EXCEPT
           ![r] = generate_timestamped_filename("playbook", "yml")]
    /\ pbGen' = [pbGen EXCEPT ![r] = clock]
    /\ pc' = [pc EXCEPT ![r] = "pb_named"]
    /\ UNCHANGED <<clock, fs, running, config, terraform_filename, response, tfGen,
                   opener, wrote>>

\* Line 94.
OpenAnsible(r) ==
    /\ pc[r] = "pb_named"
    /\ \/ /\ fs' = OpenForWrite(fs, ansible_filename[r])
          /\ opener' = [n \in (DOMAIN opener) \cup {ansible_filename[r]} |->
                           IF n = ansible_filename[r] THEN r ELSE opener[n]]
          /\ pc' = [pc EXCEPT ![r] = "pb_open"]
          /\ UNCHANGED <<running, response>>
       \/ /\ Raise(r, "OSError: open", fs)
          /\ UNCHANGED opener
    /\ UNCHANGED <<clock, config, terraform_filename, ansible_filename, tfGen, pbGen, wrote>>

\* Lines 95-124.
WriteAnsible(r) ==
    /\ pc[r] = "pb_open"
    /\ \/ /\ fs' = WriteText(fs, ansible_filename[r], AnsibleText(config[r]))
          /\ wrote' = [wrote EXCEPT ![r] = Append(@, "pb")]
          /\ pc' = [pc EXCEPT ![r] = "pb_written"]
          /\ UNCHANGED <<running, response>>
       \/ /\ \E part \in PartialWrites(AnsibleText(config[r])) :
                 Raise(r, "OSError: write", WriteText(fs, ansible_filename[r], part))
          /\ UNCHANGED wrote
    /\ UNCHANGED <<clock, config, terraform_filename, ansible_filename, tfGen, pbGen, opener>>

\* Lines 126-130.
ReturnSuccess(r) ==
    /\ pc[r] = "pb_written"
    /\ response' = [response EXCEPT ![r] =
           [status |-> 200,
            body |-> [message |-> "Terraform and Ansible files generated successfully.",
                      terraform_file |-> terraform_filename[r],
                      ansible_file |-> ansible_filename[r]]]]
    /\ pc' = [pc EXCEPT ![r] = "done"]
    /\ running' = 0
    /\ UNCHANGED <<clock, fs, config, terraform_filename, ansible_filename, tfGen, pbGen,
                   opener, wrote>>

Next ==
    \/ Tick
    \/ \E r \in Reqs, cfg \in Configs : PostGenerate(r, cfg)
    \/ \E r \in Reqs : DeriveTerraformName(r)
    \/ \E r \in Reqs : OpenTerraform(r)
    \/ \E r \in Reqs : WriteTerraform(r)
    \/ \E r \in Reqs : DeriveAnsibleName(r)
    \/ \E r \in Reqs : OpenAnsible(r)
    \/ \E r \in Reqs : WriteAnsible(r)
    \/ \E r \in Reqs : ReturnSuccess(r)

Spec == Init /\ [][Next]_vars

\* One request followed from its arrival to its response.
NextSingle ==
    \/ Tick
    \/ \E cfg \in WideConfigs : PostGenerate(1, cfg)
    \/ DeriveTerraformName(1)
    \/ OpenTerraform(1)
    \/ WriteTerraform(1)
    \/ DeriveAnsibleName(1)
    \/ OpenAnsible(1)
    \/ WriteAnsible(1)
    \/ ReturnSuccess(1)

SpecSingle == Init /\ [][NextSingle]_vars

\* The validator alone, over the strings of ValidatorInputs.
NextValidator ==
    /\ pc[1] = "idle"
    /\ \E cfg \in ValidatorInputs : PostGenerate(1, cfg)

SpecValidator == Init /\ [][NextValidator]_vars

\* ------------------------------------------------------------- properties
InSeq(seq, x) == \E i \in DOMAIN seq : seq[i] = x

Second(tick) == tick \div TicksPerSecond

\* The descriptor of request r is on disk as r wrote it: r wrote it in full
\* and no later request opened the same name.
DescriptorOf(r) ==
    /\ InSeq(wrote[r], "tf")
    /\ terraform_filename[r] \in DOMAIN fs
    /\ opener[terraform_filename[r]] = r

PlaybookOf(r) ==
    /\ InSeq(wrote[r], "pb")
    /\ ansible_filename[r] \in DOMAIN fs
    /\ opener[ansible_filename[r]] = r

\* The resource blocks of a descriptor text, in order: each block's name (the
\* tokens between the opening of the resource and of its ami line) and its
\* instance type.
RECURSIVE ResourceBlocksFrom(_, _)
ResourceBlocksFrom(text, p) ==
    IF p > Len(text) THEN <<>>
    ELSE IF text[p] = ResourceOpen
    THEN LET q == CHOOSE q \in (p + 1)..Len(text) :
                     /\ text[q] = AmiOpen
                     /\ \A j \in (p + 1)..(q - 1) : text[j] # AmiOpen
             t == CHOOSE t \in q..Len(text) :
                     /\ text[t] = InstanceTypeOpen
                     /\ \A j \in q..(t - 1) : text[j] # InstanceTypeOpen
         IN  <<[name |-> SubSeq(text, p + 1, q - 1), instance_type |-> text[t + 1]]>>
             \o ResourceBlocksFrom(text, q)
    ELSE ResourceBlocksFrom(text, p + 1)

ResourceBlocks(text) == ResourceBlocksFrom(text, 1)

\* primary, replica_1, ..., replica_N (N < 10), all of one instance type.
ExpectedBlocks(N, instance_type) ==
    <<[name |-> <<"primary">>, instance_type |-> instance_type]>>
    \o [i \in 1..N |-> [name |-> <<"replica_", DigitChars[i + 1]>>,
                        instance_type |-> instance_type]]

\* C1: every failed request, rejected by validation or failed in the handler,
\* is answered with status 422 and a body of the one shape {"error": message}.
C1_ErrorShape ==
    \A r \in Reqs :
        pc[r] \in {"rejected", "failed"} =>
            /\ response[r].status = 422
            /\ DOMAIN response[r].body = {"error"}

\* C2: the instance_type, postgres_version, max_connections and shared_buffers
\* of an accepted request each occur verbatim in the descriptor or the playbook
\* that generate_all wrote for it.
C2_RoundTrip ==
    \A r \in Reqs :
        (pc[r] = "done" /\ DescriptorOf(r) /\ PlaybookOf(r)) =>
            LET tf == fs[terraform_filename[r]]
                pb == fs[ansible_filename[r]]
                Occurs(v) == Contains(tf, v) \/ Contains(pb, v)
            IN  /\ Occurs(<<config[r].instance_type>>)
                /\ Occurs(config[r].postgres_version)
                /\ Occurs(str(config[r].max_connections))
                /\ Occurs(config[r].shared_buffers)

\* C3: for num_replicas = N >= 0 the written descriptor holds exactly the
\* blocks primary, replica_1, ..., replica_N in that order, every one with the
\* submitted instance_type; for N = 0 the primary block alone.
C3_ReplicaBlocks ==
    \A r \in Reqs :
        (DescriptorOf(r) /\ config[r].num_replicas >= 0) =>
            ResourceBlocks(fs[terraform_filename[r]])
                = ExpectedBlocks(config[r].num_replicas, config[r].instance_type)

C3_Witness ==
    \E r \in Reqs :
        /\ DescriptorOf(r)
        /\ config[r].num_replicas = MaxReplicas
        /\ Len(ResourceBlocks(fs[terraform_filename[r]])) = MaxReplicas + 1

\* What C4 says the validator accepts: whole-string patterns.
WholeSharedBuffers(v) ==
    /\ Len(v) >= 3
    /\ \A i \in 1..(Len(v) - 2) : IsDigit(v[i])
    /\ SubSeq(v, Len(v) - 1, Len(v)) \in {<<"M", "B">>, <<"G", "B">>}

WholePostgresVersion(v) ==
    \E d \in 2..(Len(v) - 1) :
        /\ v[d] = "."
        /\ \A i \in 1..Len(v) : i # d => IsDigit(v[i])

\* C4: a body is accepted if and only if its instance_type is in the
\* allow-list, its shared_buffers is as a whole digits then MB or GB, its
\* postgres_version is as a whole digits, a dot, digits, and its
\* max_connections is at least 1, whatever its num_replicas.
C4_AcceptIff ==
    \A r \in Reqs :
        pc[r] # "idle" =>
            ((pc[r] # "rejected") <=>
                /\ InSeq(VALID_INSTANCE_TYPES, config[r].instance_type)
                /\ WholeSharedBuffers(config[r].shared_buffers)
                /\ WholePostgresVersion(config[r].postgres_version)
                /\ config[r].max_connections >= 1)

\* C5: a body that fails a validation check produces nothing: the request is
\* rejected without a filename, without having opened or written a file;
\* every step of generate_all belongs to a body that passed all checks.
C5_ValidationPrecedesArtifacts ==
    \A r \in Reqs :
        (pc[r] # "idle" /\ ~PostgreSQLSetup(config[r])) =>
            /\ pc[r] = "rejected"
            /\ terraform_filename[r] = NoFile
            /\ ansible_filename[r] = NoFile
            /\ wrote[r] = <<>>
            /\ \A n \in DOMAIN opener : opener[n] # r

\* A request is rejected while the files of an earlier request are on disk.
C5_Witness ==
    \E r \in Reqs :
        /\ pc[r] = "rejected"
        /\ \E q \in Reqs : pc[q] = "done" /\ DescriptorOf(q) /\ PlaybookOf(q)

\* C6: of two successful requests the returned terraform_file names are equal
\* exactly when they were derived in the same second, and so are the returned
\* ansible_file names.
C6_NamesFollowSeconds ==
    \A r1, r2 \in Reqs :
        (pc[r1] = "done" /\ pc[r2] = "done") =>
            /\ (Second(tfGen[r1]) = Second(tfGen[r2]))
                   <=> (response[r1].body.terraform_file = response[r2].body.terraform_file)
            /\ (Second(pbGen[r1]) = Second(pbGen[r2]))
                   <=> (response[r1].body.ansible_file = response[r2].body.ansible_file)

\* Two successful requests of different seconds, with different names.
C6_Witness ==
    \E r1, r2 \in Reqs :
        /\ pc[r1] = "done" /\ pc[r2] = "done"
        /\ Second(tfGen[r1]) # Second(tfGen[r2])
        /\ Second(pbGen[r1]) # Second(pbGen[r2])
        /\ response[r1].body.terraform_file # response[r2].body.terraform_file
        /\ response[r1].body.ansible_file # response[r2].body.ansible_file

\* The timestamp of a filename base_timestamp.extension.
TimestampOf(name) == SubSeq(name, 3, Len(name) - 2)

\* C7: the two names a successful request returns carry the same timestamp.
C7_SingleTimestamp ==
    \A r \in Reqs :
        pc[r] = "done" =>
            TimestampOf(response[r].body.terraform_file)
                = TimestampOf(response[r].body.ansible_file)

\* C8: requests that derive a name in the same second derive the same name,
\* and a file holds only what the last request to open it wrote: the text of
\* that request alone when it wrote in full.
C8_SameSecondOverwrite ==
    /\ \A r1, r2 \in Reqs :
           /\ (tfGen[r1] >= 0 /\ tfGen[r2] >= 0 /\ Second(tfGen[r1]) = Second(tfGen[r2]))
                  => terraform_filename[r1] = terraform_filename[r2]
           /\ (pbGen[r1] >= 0 /\ pbGen[r2] >= 0 /\ Second(pbGen[r1]) = Second(pbGen[r2]))
                  => ansible_filename[r1] = ansible_filename[r2]
    /\ \A r \in Reqs :
           /\ DescriptorOf(r) => fs[terraform_filename[r]] = TerraformText(config[r])
           /\ PlaybookOf(r) => fs[ansible_filename[r]] = AnsibleText(config[r])

\* Both requests returned success naming the same descriptor, which holds the
\* text of the later one and not the text of the earlier one.
C8_Witness ==
    \E r1, r2 \in Reqs :
        /\ r1 < r2
        /\ pc[r1] = "done" /\ pc[r2] = "done"
        /\ response[r1].body.terraform_file = response[r2].body.terraform_file
        /\ TerraformText(config[r1]) # TerraformText(config[r2])
        /\ fs[response[r1].body.terraform_file] = TerraformText(config[r2])
        /\ fs[response[r1].body.terraform_file] # TerraformText(config[r1])

\* C9: the descriptor is written before the playbook; a request that fails
\* after its descriptor was written is answered with one 422 error and the
\* descriptor is still on disk, in full unless a later request reopened it;
\* a success response is sent only after both files were written.
C9_NoPartialCleanup ==
    \A r \in Reqs :
        /\ wrote[r] \in {<<>>, <<"tf">>, <<"tf", "pb">>}
        /\ (pc[r] = "failed" /\ wrote[r] = <<"tf">>) =>
               /\ response[r] = http_exception_handler(422, response[r].body.error)
               /\ terraform_filename[r] \in DOMAIN fs
               /\ opener[terraform_filename[r]] = r =>
                      fs[terraform_filename[r]] = TerraformText(config[r])
        /\ (response[r].status = 200) <=> (pc[r] = "done")
        /\ pc[r] = "done" => wrote[r] = <<"tf", "pb">>

\* The playbook write failed and the descriptor is on disk in full.
C9_Witness ==
    \E r \in Reqs :
        /\ pc[r] = "failed"
        /\ wrote[r] = <<"tf">>
        /\ response[r].status = 422
        /\ ansible_filename[r] \in DOMAIN fs
        /\ fs[ansible_filename[r]] # AnsibleText(config[r])
        /\ fs[terraform_filename[r]] = TerraformText(config[r])

\* C10: a body with num_replicas < 0 that passes the four checks is not
\* rejected, and the descriptor written for it is the one written for
\* num_replicas = 0 with the same instance_type: the primary block alone.
C10_NegativeReplicas ==
    \A r \in Reqs :
        (pc[r] # "idle" /\ config[r].num_replicas < 0) =>
            /\ (pc[r] = "rejected") <=>
                   ~(/\ check_postgres_version(config[r].postgres_version)
                     /\ check_instance_type(config[r].instance_type)
                     /\ check_max_connections(config[r].max_connections)
                     /\ check_shared_buffers(config[r].shared_buffers))
            /\ DescriptorOf(r) =>
                   /\ fs[terraform_filename[r]]
                          = TerraformText([config[r] EXCEPT !.num_replicas = 0])
                   /\ ResourceBlocks(fs[terraform_filename[r]])
                          = ExpectedBlocks(0, config[r].instance_type)

\* A request with num_replicas = -1 returned success.
C10_Witness ==
    \E r \in Reqs :
        /\ config[r].num_replicas < 0
        /\ pc[r] = "done"
        /\ response[r].status = 200
        /\ DescriptorOf(r)

====
